---- MODULE Spec2Model ----
(***************************************************************************)
(* Key data representation traits of askar-crypto (src/repr.rs): Seed,     *)
(* KeyGen, KeySecretBytes / ToSecretBytes, KeyPublicBytes / ToPublicBytes  *)
(* and KeypairBytes, exercised by a caller that holds one key instance and *)
(* one byte sink.  A byte string is a sequence over 0..255.  Option<T> is  *)
(* a sequence of length 0 (None) or 1 (Some), Result<T, Error> a record    *)
(* with an `ok` flag.                                                      *)
(***************************************************************************)
EXTENDS Integers, Sequences, FiniteSets, TLC

VARIABLES key,   \* the key instance the caller holds
          out,   \* the caller's byte sink (a &mut dyn WriteBuffer)
          res,   \* the call made last and what it returned
          rt     \* Some(bytes) while `key` was rebuilt from exported bytes

vars == <<key, out, res, rt>>

\* ---------------------------------------------------------------- bounds
\* Byte patterns 0..MaxPat are offered as caller inputs.
MaxPat == 2
\* The caller stops appending to a growable sink longer than this.
MaxSinkLen == 0
\* Secret size of the key type whose secret exceeds the capacity guess.
LargeKeySize == 130

\* ------------------------------------------------------- Option / Result
None == <<>>
Some(x) == <<x>>
IsSome(o) == Len(o) = 1

err_msg(kind, message) == [kind |-> kind, message |-> message]
Ok(v) == [ok |-> TRUE, val |-> v]
Err(e) == [ok |-> FALSE, err |-> e]
Unit == "()"

\* ------------------------------------------------------------ byte data
\* The byte string of length n with pattern b (b = 0: all zero).
Fill(n, b) == [i \in 1..n |-> (b * i) % 256]

\* ------------------------------------------------------------------ Seed
SeedMethod == {"Preferred", "BlsKeyGenDraft4", "RandomDet"}

Seed_Bytes(bytes, method) == [bytes |-> bytes, method |-> method]

\* Mutant: another method is selected.
Seed_from_RandomDet(seed) == Seed_Bytes(seed, "RandomDet")
Seed_from(seed) == Seed_Bytes(seed, "Preferred")

\* ------------------------------------------------- KeyMeta / KeypairMeta
\* The concrete key types: the 32-byte type of the example scenario and a
\* type whose secret is longer than the initial capacity of SecretBytes.
KeyTypes ==
    { [KeySize |-> 32, PublicKeySize |-> 32, KeypairSize |-> 64],
      [KeySize |-> LargeKeySize, PublicKeySize |-> 16,
       KeypairSize |-> LargeKeySize + 16] }

\* ------------------------------------------------------ buffer collaborators
InitialCapacity == 128

SecretBytes_with_capacity(n) == [data |-> <<>>, cap |-> n, growable |-> TRUE]
Writer_from_buffer(n) == [data |-> <<>>, cap |-> n, growable |-> FALSE]

\* WriteBuffer::buffer_write: append, or fail when a fixed target is too small.
\* `calls` lists the byte strings handed to the sink.
buffer_write(sink, data) ==
    LET end == Len(sink.data) + Len(data) IN
    IF ~sink.growable /\ end > sink.cap
    THEN [out |-> sink, res |-> Err(err_msg("SinkCapacity", "")),
          calls |-> <<data>>]
    ELSE [out |-> [sink EXCEPT !.data = @ \o data,
                               !.cap = IF end > @ THEN end ELSE @],
          res |-> Ok(Unit),
          calls |-> <<data>>]

\* --------------------------------------------------------- key instances
\* A key instance: its type, its secret (absent on a public-only instance)
\* and its public bytes.
KeyOf(T, sk, pk) == [type |-> T, secret |-> sk, public |-> pk]

\* Malformed content: a key that is all zero bytes.
ValidContent(bytes) == \E i \in 1..Len(bytes) : bytes[i] # 0

\* The public key a concrete type derives from a secret.
PublicOf(T, secret) ==
    [i \in 1..T.PublicKeySize |-> (secret[((i - 1) % T.KeySize) + 1] + 1) % 256]

\* KeyGen::generate: rng is what the randomness source yields, None when it
\* is unavailable.
generate(T, rng) ==
    IF IsSome(rng) /\ ValidContent(rng[1])
    THEN Ok(KeyOf(T, Some(rng[1]), PublicOf(T, rng[1])))
    ELSE Err(err_msg("GenerationFailure", ""))

\* Mutant: the preferred method falls back to generating a key.
from_seed_fallback(T, seed) ==
    IF seed.method = "Preferred"
    THEN generate(T, Some(Fill(T.KeySize, 1)))
    ELSE Err(err_msg("Unsupported", "Key generation from seed not supported"))
\* KeyGen::from_seed, the default body.
from_seed(T, seed) ==
    Err(err_msg("Unsupported", "Key generation from seed not supported"))

\* KeySecretBytes::from_secret_bytes
from_secret_bytes(T, bytes) ==
    IF Len(bytes) = T.KeySize /\ ValidContent(bytes)
    THEN Ok(KeyOf(T, Some(bytes), PublicOf(T, bytes)))
    ELSE Err(err_msg("InvalidKeyData", ""))

\* KeyPublicBytes::from_public_bytes
from_public_bytes(T, bytes) ==
    IF Len(bytes) = T.PublicKeySize /\ ValidContent(bytes)
    THEN Ok(KeyOf(T, None, bytes))
    ELSE Err(err_msg("InvalidKeyData", ""))

\* KeypairBytes::from_keypair_bytes: the layout is secret || public.
from_keypair_bytes(T, bytes) ==
    LET sk == SubSeq(bytes, 1, T.KeySize)
        pk == SubSeq(bytes, T.KeySize + 1, Len(bytes)) IN
    IF Len(bytes) = T.KeypairSize /\ ValidContent(sk) /\ ValidContent(pk)
    THEN Ok(KeyOf(T, Some(sk), pk))
    ELSE Err(err_msg("InvalidKeyData", ""))

\* The scoped views: what with_*_bytes passes to its callback f.  The call
\* returns what f computes from the view, so a caller's closure is written
\* as LET buf == with_*_bytes(k) IN <body of f>.
with_secret_bytes(k) == k.secret
with_public_bytes(k) == k.public
with_keypair_bytes(k) ==
    IF IsSome(k.secret) THEN Some(k.secret[1] \o k.public) ELSE None

\* ------------------------------------------------ ToSecretBytes (blanket)
\* Mutant: the combined size is reported.
secret_bytes_length_keypair(k) == Ok(k.type.KeypairSize)
secret_bytes_length(k) == Ok(k.type.KeySize)

MissingSecretKey(sink) ==
    [out |-> sink, res |-> Err(err_msg("MissingSecretKey", "")), calls |-> <<>>]

\* Mutants: a public-only instance exports its public bytes; the last byte is
\* dropped; a sink error is reported as a missing secret.
write_secret_bytes_public(k, sink) ==
    LET buf == with_secret_bytes(k) IN
    IF IsSome(buf) THEN buffer_write(sink, buf[1])
    ELSE buffer_write(sink, k.public)
write_secret_bytes_truncated(k, sink) ==
    LET buf == with_secret_bytes(k) IN
    IF IsSome(buf) THEN buffer_write(sink, SubSeq(buf[1], 1, Len(buf[1]) - 1))
    ELSE MissingSecretKey(sink)
write_secret_bytes_masked(k, sink) ==
    LET buf == with_secret_bytes(k) IN
    IF IsSome(buf) /\ buffer_write(sink, buf[1]).res.ok
    THEN buffer_write(sink, buf[1])
    ELSE MissingSecretKey(sink)
write_secret_bytes(k, sink) ==
    LET buf == with_secret_bytes(k) IN
    IF IsSome(buf) THEN buffer_write(sink, buf[1])
    ELSE MissingSecretKey(sink)

\* Mutant: the buffer does not grow past its initial capacity.
to_secret_bytes_fixed(k) ==
    LET buf == Writer_from_buffer(InitialCapacity)
        w == write_secret_bytes(k, buf) IN
    IF w.res.ok THEN Ok(w.out) ELSE w.res
to_secret_bytes(k) ==
    LET buf == SecretBytes_with_capacity(InitialCapacity)
        w == write_secret_bytes(k, buf) IN
    IF w.res.ok THEN Ok(w.out) ELSE w.res

\* ------------------------------------------------ ToPublicBytes (blanket)
public_bytes_length(k) == Ok(k.type.PublicKeySize)

\* Mutant: the public export demands a secret, as the secret export does.
write_public_bytes_needs_secret(k, sink) ==
    LET buf == with_public_bytes(k) IN
    IF IsSome(k.secret) THEN buffer_write(sink, buf)
    ELSE MissingSecretKey(sink)
write_public_bytes(k, sink) ==
    LET buf == with_public_bytes(k) IN
    buffer_write(sink, buf)

to_public_bytes(k) ==
    LET buf == SecretBytes_with_capacity(InitialCapacity)
        w == write_public_bytes(k, buf) IN
    IF w.res.ok THEN Ok(w.out) ELSE w.res

\* ------------------------------------------------------------ KeypairBytes
\* Mutant: without a secret the public half alone is written.
to_keypair_bytes_buffer_public(k, sink) ==
    LET buf == with_keypair_bytes(k) IN
    IF IsSome(buf) THEN buffer_write(sink, buf[1])
    ELSE buffer_write(sink, k.public)
to_keypair_bytes_buffer(k, sink) ==
    LET buf == with_keypair_bytes(k) IN
    IF IsSome(buf) THEN buffer_write(sink, buf[1])
    ELSE MissingSecretKey(sink)

to_keypair_bytes(k) ==
    LET buf == SecretBytes_with_capacity(InitialCapacity)
        w == to_keypair_bytes_buffer(k, buf) IN
    IF w.res.ok THEN Ok(w.out) ELSE w.res

\* ------------------------------------------------------- caller's inputs
\* Byte strings of a right length, of a wrong one and empty, of every pattern.
ByteInputs(T, size) == { Fill(n, b) : n \in {0, size, T.KeypairSize}, b \in 0..MaxPat }
SeedInputs == { Fill(n, b) : n \in {0, 16, 32}, b \in 0..MaxPat }
Seeds == { Seed_Bytes(b, m) : b \in SeedInputs, m \in SeedMethod }
             \cup { Seed_from(b) : b \in SeedInputs }
RngOutputs(T) == {None} \cup { Some(Fill(T.KeySize, b)) : b \in 0..MaxPat }
Sinks == { Writer_from_buffer(16), Writer_from_buffer(32),
           SecretBytes_with_capacity(InitialCapacity) }

\* What the call made last wrote or returned, if it was one of ops and succeeded.
WriteOps == {"write_secret_bytes", "write_public_bytes", "to_keypair_bytes_buffer"}
AllocOps == {"to_secret_bytes", "to_public_bytes", "to_keypair_bytes"}
Exported(ops) ==
    IF res.op \in ops /\ res.op \in WriteOps /\ res.r.ok THEN {res.written}
    ELSE IF res.op \in ops /\ res.op \in AllocOps /\ res.r.ok THEN {res.r.val.data}
    ELSE {}

\* The bytes a write appended to the sink.
Written(before, after) == SubSeq(after.data, Len(before.data) + 1, Len(after.data))

\* The caller appends to a growable sink only while it holds at most MaxSinkLen.
Room == out.growable => Len(out.data) <= MaxSinkLen

\* The outcome of a constructor without the instance it returned.
Outcome(r) == IF r.ok THEN Ok(Unit) ELSE r

Init ==
    /\ \E T \in KeyTypes, b \in 1..MaxPat :
          key = generate(T, Some(Fill(T.KeySize, b))).val
    /\ out \in Sinks
    /\ res = [op |-> "start"]
    /\ rt = None

\* ----------------------------------------------------------- constructors
\* The caller replaces its instance by the one a successful constructor returns.
Construct(op, r, roundtrip) ==
    /\ key' = IF r.ok THEN r.val ELSE key
    /\ rt' = IF r.ok THEN roundtrip ELSE rt
    /\ res' = [op |-> op, r |-> Outcome(r), roundtrip |-> IsSome(roundtrip)]
    /\ UNCHANGED out

Generate ==
    \E T \in KeyTypes : \E rng \in RngOutputs(T) :
        Construct("generate", generate(T, rng), None)

FromSecretBytes ==
    \E T \in KeyTypes :
    \E bytes \in ByteInputs(T, T.KeySize)
                 \cup Exported({"write_secret_bytes", "to_secret_bytes"}) :
        Construct("from_secret_bytes", from_secret_bytes(T, bytes),
                  IF T = key.type
                     /\ bytes \in Exported({"write_secret_bytes", "to_secret_bytes"})
                  THEN Some(bytes) ELSE None)

FromPublicBytes ==
    \E T \in KeyTypes :
    \E bytes \in ByteInputs(T, T.PublicKeySize)
                 \cup Exported({"write_public_bytes", "to_public_bytes"}) :
        Construct("from_public_bytes", from_public_bytes(T, bytes), None)

FromKeypairBytes ==
    \E T \in KeyTypes :
    \E bytes \in ByteInputs(T, T.KeySize)
                 \cup Exported({"to_keypair_bytes_buffer", "to_keypair_bytes"}) :
        Construct("from_keypair_bytes", from_keypair_bytes(T, bytes), None)

NewSink ==
    /\ out' \in Sinks
    /\ res' = [op |-> "new_sink"]
    /\ UNCHANGED <<key, rt>>

\* --------------------------------------------------------------- exports
Write(op, w) ==
    /\ Room
    /\ out' = w.out
    /\ res' = [op |-> op, r |-> w.res, written |-> Written(out, w.out),
               handed |-> w.calls]
    /\ UNCHANGED <<key, rt>>

Return(op, r) ==
    /\ res' = [op |-> op, r |-> r]
    /\ UNCHANGED <<key, out, rt>>

SecretBytesLength == Return("secret_bytes_length", secret_bytes_length(key))
WriteSecretBytes == Write("write_secret_bytes", write_secret_bytes(key, out))
\* Mutant: the export moves the secret out of the instance.
ToSecretBytes_take ==
    /\ res' = [op |-> "to_secret_bytes", r |-> to_secret_bytes(key)]
    /\ key' = [key EXCEPT !.secret = None]
    /\ UNCHANGED <<out, rt>>
ToSecretBytes == Return("to_secret_bytes", to_secret_bytes(key))
PublicBytesLength == Return("public_bytes_length", public_bytes_length(key))
WritePublicBytes == Write("write_public_bytes", write_public_bytes(key, out))
ToPublicBytes == Return("to_public_bytes", to_public_bytes(key))
ToKeypairBytesBuffer ==
    Write("to_keypair_bytes_buffer", to_keypair_bytes_buffer(key, out))
ToKeypairBytes == Return("to_keypair_bytes", to_keypair_bytes(key))

Next ==
    \/ Generate
    \/ FromSecretBytes
    \/ FromPublicBytes
    \/ FromKeypairBytes
    \/ NewSink
    \/ SecretBytesLength
    \/ WriteSecretBytes
    \/ ToSecretBytes
    \/ PublicBytesLength
    \/ WritePublicBytes
    \/ ToPublicBytes
    \/ ToKeypairBytesBuffer
    \/ ToKeypairBytes

Spec == Init /\ [][Next]_vars

\* ------------------------------------------------- seeds and from_seed
SeedFrom ==
    \E bytes \in SeedInputs :
        /\ res' = [op |-> "seed_from", arg |-> bytes, made |-> Seed_from(bytes)]
        /\ UNCHANGED <<key, out, rt>>

FromSeed ==
    \E T \in KeyTypes : \E seed \in Seeds :
        LET r == from_seed(T, seed) IN
        /\ key' = IF r.ok THEN r.val ELSE key
        /\ rt' = IF r.ok THEN None ELSE rt
        /\ res' = [op |-> "from_seed", r |-> Outcome(r), keytype |-> T,
                   given |-> seed]
        /\ UNCHANGED out

SeedNext == SeedFrom \/ FromSeed

SeedSpec == Init /\ [][SeedNext]_vars

\* ================================================================ claims
MissingSecretKeyError == Err(err_msg("MissingSecretKey", ""))
ExportOps == WriteOps \cup AllocOps \cup {"secret_bytes_length", "public_bytes_length"}

\* C1: the default from_seed fails with Unsupported for every seed content,
\* seed length and SeedMethod; it returns no key, and the caller's instance is
\* not replaced by a generated one.
C1_FromSeedUnsupported ==
    [][res'.op = "from_seed" =>
          /\ ~res'.r.ok
          /\ res'.r.err.kind = "Unsupported"
          /\ key' = key]_vars

C1_Witness ==
    /\ res.op = "from_seed"
    /\ res.given.method = "RandomDet"
    /\ Len(res.given.bytes) = 32
    /\ ~res.r.ok

\* C2: write_secret_bytes hands exactly the secret view to the sink when the
\* view is present (a successful write appends exactly those bytes); when it
\* is absent it fails with MissingSecretKey, makes no call on the sink and
\* leaves the sink as it was.
C2_WriteSecretBytes ==
    [][res'.op = "write_secret_bytes" =>
          IF IsSome(key.secret)
          THEN /\ res'.handed = <<key.secret[1]>>
               /\ res'.r.ok => out'.data = out.data \o key.secret[1]
          ELSE /\ res'.r = MissingSecretKeyError
               /\ res'.handed = <<>>
               /\ out' = out]_vars

C2_Witness ==
    /\ res.op = "write_secret_bytes"
    /\ ~IsSome(key.secret)
    /\ Len(out.data) > 0
    /\ ~res.r.ok

\* C3: on a public-only instance to_secret_bytes, to_keypair_bytes and
\* to_keypair_bytes_buffer all fail with the same MissingSecretKey error, and
\* no buffer is returned.
C3_PublicOnlyExportFails ==
    (res.op \in {"to_secret_bytes", "to_keypair_bytes", "to_keypair_bytes_buffer"}
       /\ ~IsSome(key.secret))
    => /\ res.r = MissingSecretKeyError
       /\ to_secret_bytes(key) = to_keypair_bytes(key)
       /\ to_keypair_bytes_buffer(key, out).res = to_secret_bytes(key)

C3_Witness ==
    /\ res.op = "to_keypair_bytes"
    /\ ~IsSome(key.secret)
    /\ ~res.r.ok

\* C4: secret_bytes_length() is the declared KeySize, and it is the length of
\* the view with_secret_bytes yields whenever that view is present.
C4_SecretLength ==
    /\ secret_bytes_length(key) = Ok(key.type.KeySize)
    /\ LET view == with_secret_bytes(key) IN
          IsSome(view) => Len(view[1]) = secret_bytes_length(key).val
    /\ res.op = "secret_bytes_length" => res.r = Ok(key.type.KeySize)

C4_Witness ==
    /\ res.op = "secret_bytes_length"
    /\ IsSome(key.secret)
    /\ key.type.KeySize = LargeKeySize

\* C5: from_secret_bytes applied to the bytes a secret export produced
\* succeeds, and every later secret export of the rebuilt instance produces
\* the same bytes.
C5_RoundTrip ==
    /\ (res.op = "from_secret_bytes" /\ res.roundtrip) => res.r.ok
    /\ IsSome(rt) =>
          /\ (res.op = "write_secret_bytes" /\ res.r.ok) => res.written = rt[1]
          /\ res.op = "to_secret_bytes" => (res.r.ok /\ res.r.val.data = rt[1])

C5_Witness ==
    /\ IsSome(rt)
    /\ res.op = "write_secret_bytes"
    /\ res.r.ok
    /\ res.written = rt[1]

\* C6: the view with_public_bytes yields has the length public_bytes_length()
\* reports, the declared PublicKeySize; write_public_bytes hands it to the
\* sink whether or not a secret is held, and write_public_bytes and
\* to_public_bytes fail with the sink's error or not at all.
C6_PublicBytes ==
    /\ LET view == with_public_bytes(key) IN
          Len(view) = public_bytes_length(key).val
    /\ public_bytes_length(key) = Ok(key.type.PublicKeySize)
    /\ res.op = "write_public_bytes" =>
          /\ res.handed = <<key.public>>
          /\ res.r.ok \/ res.r.err.kind = "SinkCapacity"
    /\ res.op = "to_public_bytes" =>
          \/ res.r.ok /\ res.r.val.data = key.public
          \/ ~res.r.ok /\ res.r.err.kind = "SinkCapacity"

C6_Witness ==
    /\ res.op = "write_public_bytes"
    /\ ~IsSome(key.secret)
    /\ res.r.ok

\* C7: with a secret held, write_secret_bytes returns what the sink's write
\* returned; for KeySize = 32 an empty 32-byte sink takes the secret and a
\* 16-byte sink fails with the sink's capacity error.
C7_SinkErrorPropagated ==
    [][(res'.op = "write_secret_bytes" /\ IsSome(key.secret)) =>
          /\ res'.r = buffer_write(out, key.secret[1]).res
          /\ (key.type.KeySize = 32 /\ out = Writer_from_buffer(32)) =>
                (res'.r.ok /\ out'.data = key.secret[1])
          /\ (key.type.KeySize = 32 /\ ~out.growable /\ out.cap = 16) =>
                (~res'.r.ok /\ res'.r.err.kind = "SinkCapacity")]_vars

C7_Witness ==
    /\ res.op = "write_secret_bytes"
    /\ key.type.KeySize = 32
    /\ IsSome(key.secret)
    /\ out = Writer_from_buffer(16)
    /\ ~res.r.ok
    /\ res.r.err.kind = "SinkCapacity"

\* C8: no export call, successful or failing, changes the instance, and a
\* length or allocating export repeated right away returns the same result.
C8_ExportsKeepInstance ==
    [][res'.op \in ExportOps =>
          /\ key' = key
          /\ (res.op = res'.op /\ res'.op \notin WriteOps) => res'.r = res.r]_vars

C8_Witness ==
    /\ res.op = "to_keypair_bytes_buffer"
    /\ IsSome(key.secret)
    /\ ~res.r.ok

\* C9: to_secret_bytes has the outcome of write_secret_bytes into a fresh,
\* empty, growable buffer: the secret view and nothing else on success, also
\* past the initial capacity, and the error of write_secret_bytes otherwise.
C9_ToSecretBytes ==
    res.op = "to_secret_bytes" =>
        LET w == write_secret_bytes(key, SecretBytes_with_capacity(0)) IN
        IF IsSome(key.secret)
        THEN /\ res.r.ok /\ w.res.ok
             /\ res.r.val.data = key.secret[1]
             /\ res.r.val.data = w.out.data
        ELSE res.r = w.res /\ ~res.r.ok

C9_Witness ==
    /\ res.op = "to_secret_bytes"
    /\ res.r.ok
    /\ Len(res.r.val.data) > InitialCapacity

\* C10: a bare byte span converts to the Seed that carries exactly those
\* bytes with method Preferred.
C10_SeedFromPreferred ==
    res.op = "seed_from" =>
        /\ res.made.bytes = res.arg
        /\ res.made.method = "Preferred"

C10_Witness ==
    /\ res.op = "seed_from"
    /\ res.arg = <<>>
    /\ res.made.method = "Preferred"

====
